---------------------------- MODULE Spec2Model ----------------------------
(***************************************************************************)
(* Functional Genomics Browser (src/app.py): a Streamlit script that is    *)
(* re-executed from top to bottom on every user interaction.  The state is *)
(* the session store (the four loaded datasets), the values the widgets    *)
(* hold between runs, and what the last run of the script produced.        *)
(***************************************************************************)
EXTENDS Integers, Sequences, FiniteSets, TLC

(***************************************************************************)
(* Bounds of the model.                                                    *)
(***************************************************************************)
\* rows per dataset
MaxRows == 2

\* genomic positions are 1..MaxPos (an order-preserving scale of base pairs)
MaxPos == 2

\* score changes are 1..MaxScore (an order-preserving scale of the scores)
MaxScore == 2

\* filter controls the user holds off their defaults at the same time
MaxActive == 2

(***************************************************************************)
(* Values of a data frame cell.                                            *)
(***************************************************************************)
\* pandas' missing value in a numeric column (read_csv of an empty cell)
NaN == 0 - 1

\* pandas' missing value in a string column; a string is a sequence of
\* one-character strings, and no character is "NaN"
NaStr == <<"NaN">>

\* the placeholder the CSV files use for "no link"
NoLink == "-"

DatasetNames == <<"Enhancer GOF", "Enhancer LOF", "Non-enhancer GOF", "TF Enhancer LOF">>

Names == {DatasetNames[i] : i \in 1..Len(DatasetNames)}

Pages == {"Browse Data", "Visualize", "Analysis", "About"}

\* the columns the script reads
EnhancerColumns ==
    {"chr", "dbsnp_id", "variant_start", "variant_end", "ScoreChange",
     "is_clinically_significant", "gwas_url", "clinvar_url", "eqtl_url"}

TFColumns ==
    {"transcription_factor", "chr", "dbsnp_id", "variant_start", "variant_end",
     "ScoreChange"}

(***************************************************************************)
(* The CSV contents.  The files are not part of the script, so the rows    *)
(* of a dataset are drawn from a pool of variants and its columns from a   *)
(* pool of schemas.                                                        *)
(***************************************************************************)
Variant(c, s, e, sc, clin, tf, g, cv, eq, id) ==
    [chr |-> c, variant_start |-> s, variant_end |-> e, ScoreChange |-> sc,
     is_clinically_significant |-> clin, transcription_factor |-> tf,
     gwas_url |-> g, clinvar_url |-> cv, eqtl_url |-> eq, dbsnp_id |-> id]

VariantList ==
    << Variant("chr1", 1, 1, 1, "yes", "CTCF", "u", NoLink, NoLink, <<"r", "s", "1">>),
       Variant("chr2", 1, MaxPos, MaxScore, "no", "SP1", NoLink, "u", "u",
               <<"r", "s", "1", "2">>),
       Variant("chr1", NaN, NaN, NaN, "no", "CTCF", "u", "u", NoLink, NaStr) >>

VariantPool == {VariantList[i] : i \in 1..Len(VariantList)}

SchemaPool ==
    { TFColumns,
      TFColumns \ {"variant_end"},
      EnhancerColumns \ {"clinvar_url", "eqtl_url"},
      {"dbsnp_id"} }

\* a column that is not in the schema holds nothing in any row
Blank(col) ==
    CASE col \in {"variant_start", "variant_end", "ScoreChange"} -> NaN
      [] col = "dbsnp_id" -> NaStr
      [] OTHER -> ""

Project(v, cols) == [col \in DOMAIN v |-> IF col \in cols THEN v[col] ELSE Blank(col)]

\* pd.read_csv: the rows in file order, labelled 0, 1, 2, ... (RangeIndex)
ReadCsv(cols, vs) ==
    [columns |-> cols,
     rows |-> [i \in 1..Len(vs) |-> [index |-> i - 1, cells |-> Project(vs[i], cols)]]]

VariantSeqs == UNION {[1..n -> VariantPool] : n \in 0..MaxRows}

\* the rows of the files whose rows the model does not vary
ReferenceRows == <<VariantList[1], VariantList[2]>>

\* the files the first dataset is read from: every sequence of variants
\* under the full schema, and the reference rows under every other schema
Tables ==
    {ReadCsv(EnhancerColumns, vs) : vs \in VariantSeqs}
    \cup {ReadCsv(cols, ReferenceRows) : cols \in SchemaPool}

(***************************************************************************)
(* pandas on a data frame (a sequence of labelled rows).                   *)
(***************************************************************************)
\* comparisons with a missing value are False
Ge(a, b) == a # NaN /\ b # NaN /\ a >= b

Le(a, b) == a # NaN /\ b # NaN /\ a <= b

Cells(rows, col) == {rows[i].cells[col] : i \in 1..Len(rows)}

\* Series.min() / Series.max(): missing values are skipped, and the result
\* is missing when nothing is left
ColMin(rows, col) ==
    LET vals == Cells(rows, col) \ {NaN}
    IN  IF vals = {} THEN NaN ELSE CHOOSE v \in vals : \A u \in vals : v <= u

ColMax(rows, col) ==
    LET vals == Cells(rows, col) \ {NaN}
    IN  IF vals = {} THEN NaN ELSE CHOOSE v \in vals : \A u \in vals : v >= u

\* df[mask] is SelectSeq: the rows whose mask is True, in place, labels kept

\* the dtype read_csv gives a column whose every cell is empty is float64,
\* and Series.str refuses it; a file with no rows gives object columns
IsFloatColumn(rows, col) == Len(rows) > 0 /\ Cells(rows, col) = {NaStr}

(***************************************************************************)
(* Series.str.contains(pat, case=False, na=False): pat is a regular        *)
(* expression, searched with re.IGNORECASE.  Patterns are built from       *)
(* letters, digits, "." (any character) and "(" (opens a group; there is   *)
(* no ")" among the characters, so the group is never closed).             *)
(***************************************************************************)
Lower(c) == CASE c = "R" -> "r" [] c = "S" -> "s" [] OTHER -> c

\* re.compile raises re.error on an unterminated group
RegexError(pat) == \E i \in 1..Len(pat) : pat[i] = "("

RegexSearch(pat, str) ==
    \E off \in 0..(Len(str) - Len(pat)) :
        \A i \in 1..Len(pat) : pat[i] = "." \/ Lower(pat[i]) = Lower(str[off + i])

StrContains(pat, str) == IF str = NaStr THEN FALSE ELSE RegexSearch(pat, str)

(***************************************************************************)
(* The filter controls.  A widget keeps its value from one run to the next *)
(* as long as it is rendered again with the same parameters (its options,  *)
(* its bounds); a widget that a run does not render, or renders with other *)
(* parameters, starts from its default.                                    *)
(***************************************************************************)
NotRendered == <<0, 0>>

DefaultWidgets ==
    [selected_chromosome |-> "All", pos_range |-> NotRendered, score_range |-> NotRendered,
     clin_filter |-> "All", selected_tf |-> "All",
     GWAS |-> FALSE, ClinVar |-> FALSE, eQTL |-> FALSE, search_term |-> <<>>]

\* the parameters each widget was rendered with ({} or <<0, 0>> or FALSE:
\* it was not rendered)
NoWidgets ==
    [selected_chromosome |-> {}, pos_range |-> NotRendered, score_range |-> NotRendered,
     clin_filter |-> FALSE, selected_tf |-> {},
     GWAS |-> FALSE, ClinVar |-> FALSE, eQTL |-> FALSE, search_term |-> FALSE]

\* what a run of the filter column has done so far: filtered_data, the
\* exception that ended it ("none": still running), the values the widgets
\* returned and the parameters they were rendered with
StartRun(current_data) ==
    [fd |-> current_data.rows, err |-> "none", w |-> DefaultWidgets, ids |-> NoWidgets]

Raise(st, exc) == [st EXCEPT !.err = exc]

\* the value a widget returns: the one it holds when it was rendered with
\* the same parameters in the previous run, its default otherwise
Widget(name, params, default, held, prev) ==
    IF prev[name] = params THEN held[name] ELSE default

\* lines 157-162
ChromosomeFilterOfCurrent(current_data, held, prev, st) ==
    LET chromosomes == {"All"} \cup Cells(current_data.rows, "chr")
        selected_chromosome == Widget("selected_chromosome", chromosomes, "All", held, prev)
        st1 == [st EXCEPT !.w.selected_chromosome = selected_chromosome,
                          !.ids.selected_chromosome = chromosomes]
    IN  IF selected_chromosome # "All"
        THEN [st1 EXCEPT !.fd = SelectSeq(current_data.rows,
                                     LAMBDA r : r.cells["chr"] = selected_chromosome)]
        ELSE st1

ChromosomeFilter(current_data, held, prev, st) ==
    LET chromosomes == {"All"} \cup Cells(current_data.rows, "chr")
        selected_chromosome == Widget("selected_chromosome", chromosomes, "All", held, prev)
        st1 == [st EXCEPT !.w.selected_chromosome = selected_chromosome,
                          !.ids.selected_chromosome = chromosomes]
    IN  IF selected_chromosome # "All"
        THEN [st1 EXCEPT !.fd = SelectSeq(st.fd, LAMBDA r : r.cells["chr"] = selected_chromosome)]
        ELSE st1

\* lines 177-180 with an interval-overlap test
PositionMaskOverlap(fd, pos_range) ==
    SelectSeq(fd, LAMBDA r : Ge(r.cells["variant_end"], pos_range[1])
                        /\ Le(r.cells["variant_start"], pos_range[2]))

\* lines 177-180
PositionMask(fd, pos_range) ==
    SelectSeq(fd, LAMBDA r : Ge(r.cells["variant_start"], pos_range[1])
                        /\ Le(r.cells["variant_end"], pos_range[2]))

\* lines 164-180; int() of a missing value raises ValueError
PositionFilter(current_data, held, prev, st) ==
    LET min_pos == ColMin(current_data.rows, "variant_start")
        max_pos == ColMax(current_data.rows, "variant_end")
        pos_range == Widget("pos_range", <<min_pos, max_pos>>, <<min_pos, max_pos>>, held, prev)
    IN  IF min_pos = NaN THEN Raise(st, "ValueError")
        ELSE IF "variant_end" \notin current_data.columns THEN Raise(st, "KeyError")
        ELSE IF max_pos = NaN THEN Raise(st, "ValueError")
        ELSE [st EXCEPT !.w.pos_range = pos_range,
                        !.ids.pos_range = <<min_pos, max_pos>>,
                        !.fd = PositionMask(st.fd, pos_range)]

\* lines 195-198 followed by a sort on the score
ScoreMaskSorted(fd, score_range) ==
    LET kept == SelectSeq(fd, LAMBDA r : Ge(r.cells["ScoreChange"], score_range[1])
                                    /\ Le(r.cells["ScoreChange"], score_range[2]))
        top == SelectSeq(kept, LAMBDA r : r.cells["ScoreChange"] = score_range[2])
        rest == SelectSeq(kept, LAMBDA r : r.cells["ScoreChange"] # score_range[2])
    IN  top \o rest

\* lines 195-198
ScoreMask(fd, score_range) ==
    SelectSeq(fd, LAMBDA r : Ge(r.cells["ScoreChange"], score_range[1])
                        /\ Le(r.cells["ScoreChange"], score_range[2]))

\* lines 182-198; float() of a missing value is nan
ScoreFilter(current_data, held, prev, st) ==
    LET score_min == ColMin(current_data.rows, "ScoreChange")
        score_max == ColMax(current_data.rows, "ScoreChange")
        score_range ==
            Widget("score_range", <<score_min, score_max>>, <<score_min, score_max>>, held, prev)
    IN  [st EXCEPT !.w.score_range = score_range,
                   !.ids.score_range = <<score_min, score_max>>,
                   !.fd = ScoreMask(st.fd, score_range)]

\* lines 200-209
ClinicalFilter(current_data, held, prev, st) ==
    LET clin_filter == Widget("clin_filter", TRUE, "All", held, prev)
        st1 == [st EXCEPT !.w.clin_filter = clin_filter, !.ids.clin_filter = TRUE]
    IN  IF clin_filter = "Yes only"
        THEN [st1 EXCEPT !.fd = SelectSeq(st.fd,
                                     LAMBDA r : r.cells["is_clinically_significant"] = "yes")]
        ELSE IF clin_filter = "No only"
        THEN [st1 EXCEPT !.fd = SelectSeq(st.fd,
                                     LAMBDA r : r.cells["is_clinically_significant"] = "no")]
        ELSE st1

\* lines 211-216
TranscriptionFactorFilter(current_data, held, prev, st) ==
    LET tfs == {"All"} \cup Cells(current_data.rows, "transcription_factor")
        selected_tf == Widget("selected_tf", tfs, "All", held, prev)
        st1 == [st EXCEPT !.w.selected_tf = selected_tf, !.ids.selected_tf = tfs]
    IN  IF selected_tf # "All"
        THEN [st1 EXCEPT !.fd = SelectSeq(st.fd,
                                     LAMBDA r : r.cells["transcription_factor"] = selected_tf)]
        ELSE st1

\* one checkbox of lines 221-226 and its mask; indexing a column the frame
\* does not have raises KeyError
LinkCheckbox(label, col, current_data, held, prev, st) ==
    LET ticked == Widget(label, TRUE, FALSE, held, prev)
        st1 == [st EXCEPT !.w[label] = ticked, !.ids[label] = TRUE]
    IN  IF st.err # "none" THEN st
        ELSE IF ~ticked THEN st1
        ELSE IF col \notin current_data.columns THEN Raise(st1, "KeyError")
        ELSE [st1 EXCEPT !.fd = SelectSeq(st.fd, LAMBDA r : r.cells[col] # NoLink)]

\* lines 218-226
ExternalLinksFilter(current_data, held, prev, st) ==
    LinkCheckbox("eQTL", "eqtl_url", current_data, held, prev,
        LinkCheckbox("ClinVar", "clinvar_url", current_data, held, prev,
            LinkCheckbox("GWAS", "gwas_url", current_data, held, prev, st)))

\* lines 228-234
SearchFilter(current_data, held, prev, st) ==
    LET search_term == Widget("search_term", TRUE, <<>>, held, prev)
        st1 == [st EXCEPT !.w.search_term = search_term, !.ids.search_term = TRUE]
    IN  IF search_term = <<>> THEN st1
        ELSE IF IsFloatColumn(current_data.rows, "dbsnp_id") THEN Raise(st1, "AttributeError")
        ELSE IF RegexError(search_term) THEN Raise(st1, "re.error")
        ELSE [st1 EXCEPT !.fd = SelectSeq(st.fd,
                                     LAMBDA r : StrContains(search_term, r.cells["dbsnp_id"]))]

\* the filter blocks of the Browse Data page, in the order of the script
FilterOrder ==
    <<"chromosome", "position", "score", "clinical", "tf", "links", "search">>

\* one filter block: skipped when its column is not in the frame, and never
\* reached once an exception has ended the run
FilterStep(name, current_data, held, prev, st) ==
    LET has(col) == col \in current_data.columns
    IN  IF st.err # "none" THEN st
        ELSE CASE name = "chromosome" ->
                    IF has("chr") THEN ChromosomeFilter(current_data, held, prev, st) ELSE st
               [] name = "position" ->
                    IF has("variant_start") THEN PositionFilter(current_data, held, prev, st)
                    ELSE st
               [] name = "score" ->
                    IF has("ScoreChange") THEN ScoreFilter(current_data, held, prev, st) ELSE st
               [] name = "clinical" ->
                    IF has("is_clinically_significant")
                    THEN ClinicalFilter(current_data, held, prev, st) ELSE st
               [] name = "tf" ->
                    IF has("transcription_factor")
                    THEN TranscriptionFactorFilter(current_data, held, prev, st) ELSE st
               [] name = "links" ->
                    IF has("gwas_url") THEN ExternalLinksFilter(current_data, held, prev, st)
                    ELSE st
               [] name = "search" ->
                    IF has("dbsnp_id") THEN SearchFilter(current_data, held, prev, st) ELSE st

RECURSIVE ApplyFilters(_, _, _, _, _)
ApplyFilters(order, current_data, held, prev, st) ==
    IF order = <<>> THEN st
    ELSE ApplyFilters(Tail(order), current_data, held, prev,
                      FilterStep(Head(order), current_data, held, prev, st))

\* lines 126-234: filtered_data starts as a copy of current_data and goes
\* through the filter blocks
BrowseData(current_data, held, prev) ==
    ApplyFilters(FilterOrder, current_data, held, prev, StartRun(current_data))

\* lines 322-348: the link counts index all three link columns as soon as
\* the frame has 'is_clinically_significant'
Visualize(current_data) ==
    IF "is_clinically_significant" \in current_data.columns
       /\ ~({"gwas_url", "clinvar_url", "eqtl_url"} \subseteq current_data.columns)
    THEN "KeyError"
    ELSE "none"

(***************************************************************************)
(* The Analysis page.  A cell of the summary table is a number, a text or  *)
(* pandas' missing value; a text made by a format keeps the numbers that   *)
(* were formatted, in thousandths.                                         *)
(***************************************************************************)
Number(n) == [kind |-> "number", text |-> "", a |-> n, b |-> 0]

Text(t) == [kind |-> "text", text |-> t, a |-> 0, b |-> 0]

Missing == [kind |-> "missing", text |-> "", a |-> 0, b |-> 0]

RECURSIVE SumOf(_, _)
SumOf(rows, col) ==
    IF rows = <<>> THEN 0
    ELSE (IF Head(rows).cells[col] = NaN THEN 0 ELSE Head(rows).cells[col])
         + SumOf(Tail(rows), col)

CountOf(rows, col) == Len(SelectSeq(rows, LAMBDA r : r.cells[col] # NaN))

\* f"{df['ScoreChange'].mean():.3f}": the mean of no values is nan, and
\* nan is formatted as "nan"; a mean is rounded to its nearest thousandth
FormatMean(rows, col) ==
    LET n == CountOf(rows, col)
    IN  IF n = 0 THEN Text("nan")
        ELSE [kind |-> "text", text |-> "%.3f",
              a |-> (2000 * SumOf(rows, col) + n) \div (2 * n), b |-> 0]

\* f"{min:.3f} to {max:.3f}"
FormatRange(rows, col) ==
    IF CountOf(rows, col) = 0 THEN Text("nan to nan")
    ELSE [kind |-> "text", text |-> "%.3f to %.3f",
          a |-> 1000 * ColMin(rows, col), b |-> 1000 * ColMax(rows, col)]

\* lines 395-406: the dict of one dataset; the score and the clinical keys
\* are set only when the frame has the column
SummaryRow(name, df) ==
    LET base == [Dataset |-> Text(name),
                 TotalVariants |-> Number(Len(df.rows)),
                 Chromosomes |-> IF "chr" \in df.columns
                                 THEN Number(Cardinality(Cells(df.rows, "chr")))
                                 ELSE Text("N/A")]
        score == [AvgScoreChange |-> FormatMean(df.rows, "ScoreChange"),
                  ScoreRange |-> FormatRange(df.rows, "ScoreChange")]
        clin == [ClinicalSig |-> Number(Len(SelectSeq(df.rows,
                     LAMBDA r : r.cells["is_clinically_significant"] = "yes")))]
        keys == DOMAIN base
                \cup (IF "ScoreChange" \in df.columns THEN DOMAIN score ELSE {})
                \cup (IF "is_clinically_significant" \in df.columns THEN DOMAIN clin ELSE {})
    IN  [k \in keys |-> IF k \in DOMAIN base THEN base[k]
                        ELSE IF k \in DOMAIN score THEN score[k] ELSE clin[k]]

\* lines 393-410: one dict per dataset in the order of the session's dict;
\* pd.DataFrame gives the table the union of the keys and fills a key a
\* dict does not have with the missing value
Analysis(ds) ==
    LET summary_data == [i \in 1..Len(DatasetNames) |->
                            SummaryRow(DatasetNames[i], ds[DatasetNames[i]])]
        columns == UNION {DOMAIN summary_data[i] : i \in 1..Len(DatasetNames)}
    IN  [i \in 1..Len(DatasetNames) |->
            [k \in columns |-> IF k \in DOMAIN summary_data[i]
                               THEN summary_data[i][k] ELSE Missing]]

EmptyFrame == <<>>

\* one run of the script (lines 92-493) for the widget values `held` and the
\* widget parameters `prev` of the previous run
Script(ds, sel, pg, held, prev) ==
    LET current_data == ds[sel]
        browse == BrowseData(current_data, held, prev)
    IN  CASE pg = "Browse Data" ->
                [widgets |-> browse.w, rendered |-> browse.ids, raised |-> browse.err,
                 filtered_data |-> IF browse.err = "none" THEN browse.fd ELSE EmptyFrame,
                 summary_df |-> EmptyFrame]
          [] pg = "Visualize" ->
                [widgets |-> DefaultWidgets, rendered |-> NoWidgets,
                 raised |-> Visualize(current_data),
                 filtered_data |-> EmptyFrame, summary_df |-> EmptyFrame]
          [] pg = "Analysis" ->
                [widgets |-> DefaultWidgets, rendered |-> NoWidgets, raised |-> "none",
                 filtered_data |-> EmptyFrame, summary_df |-> Analysis(ds)]
          [] OTHER ->
                [widgets |-> DefaultWidgets, rendered |-> NoWidgets, raised |-> "none",
                 filtered_data |-> EmptyFrame, summary_df |-> EmptyFrame]

(***************************************************************************)
(* The session.                                                            *)
(***************************************************************************)
VARIABLES
    datasets,          \* st.session_state.datasets: name -> data frame
    selected_dataset,  \* the sidebar's dataset selectbox
    page,              \* the sidebar's navigation radio
    widgets,           \* the values of the filter controls
    rendered,          \* the parameters the last run rendered them with
    filtered_data,     \* the table the last run showed on Browse Data
    summary_df,        \* the table the last run showed on Analysis
    raised,            \* the exception that ended the last run, or "none"
    last_event         \* "reset" when the Reset Filters button started the
                       \* last run, "other" for the first run and any other
                       \* interaction

vars == <<datasets, selected_dataset, page, widgets, rendered, filtered_data,
          summary_df, raised, last_event>>

\* the files behind the datasets the model does not vary: one variant and
\* its identifier, which the last file leaves empty
ReferenceTable(name) ==
    ReadCsv({"dbsnp_id"},
            IF name = DatasetNames[4] THEN <<VariantList[3]>> ELSE <<VariantList[1]>>)

\* the controls that are off their defaults
Active(w, ids) ==
    {name \in DOMAIN w :
        CASE name \in {"pos_range", "score_range"} -> w[name] # ids[name]
          [] OTHER -> w[name] # DefaultWidgets[name]}

WithinBound(w) == Cardinality(Active(w, rendered)) <= MaxActive

\* lines 116-117 and 127 with the frames of the session store filtered in
\* place instead of copied
SessionStoreAliased(ds, sel, pg, out) ==
    IF pg = "Browse Data" /\ out.raised = "none"
    THEN [ds EXCEPT ![sel].rows = out.filtered_data]
    ELSE ds

\* lines 64-66, 116-117 and 127: the store is filled once, and a run works
\* on copies of its frames, so the store is what it was
SessionStore(ds, sel, pg, out) == ds

\* a run of the script started by `event`, with dataset `sel` and page `pg`
\* selected and the filter controls holding `held`
Rerun(sel, pg, held, event) ==
    LET out == Script(datasets, sel, pg, held, rendered)
    IN  /\ datasets' = SessionStore(datasets, sel, pg, out)
        /\ selected_dataset' = sel
        /\ page' = pg
        /\ widgets' = out.widgets
        /\ rendered' = out.rendered
        /\ filtered_data' = out.filtered_data
        /\ summary_df' = out.summary_df
        /\ raised' = out.raised
        /\ last_event' = event

\* lines 53-66 and the first run: the first dataset and the first page are
\* selected and every control is at its default
Init ==
    \E table \in Tables :
        LET loaded == [n \in Names |->
                          IF n = DatasetNames[1] THEN table ELSE ReferenceTable(n)]
            out == Script(loaded, DatasetNames[1], "Browse Data", DefaultWidgets, NoWidgets)
        IN  /\ datasets = loaded
            /\ selected_dataset = DatasetNames[1]
            /\ page = "Browse Data"
            /\ widgets = out.widgets
            /\ rendered = out.rendered
            /\ filtered_data = out.filtered_data
            /\ summary_df = out.summary_df
            /\ raised = out.raised
            /\ last_event = "other"

\* the search strings the user types
SearchTerms == {<<>>, <<"S", ".", "2">>, <<"(">>}

ClinOptions == {"All", "Yes only", "No only"}

LinkLabels == {"GWAS", "ClinVar", "eQTL"}

\* lines 99-103
SelectDataset(name) ==
    /\ name # selected_dataset
    /\ Rerun(name, page, widgets, "other")

\* lines 110-114
Navigate(pg) ==
    /\ pg # page
    /\ Rerun(selected_dataset, pg, widgets, "other")

\* line 160
SetChromosome(c) ==
    /\ c # widgets.selected_chromosome
    /\ WithinBound([widgets EXCEPT !.selected_chromosome = c])
    /\ Rerun(selected_dataset, page, [widgets EXCEPT !.selected_chromosome = c], "other")

\* lines 170-176
SetPosRange(lo, hi) ==
    /\ rendered.pos_range # NotRendered
    /\ rendered.pos_range[1] <= lo /\ lo <= hi /\ hi <= rendered.pos_range[2]
    /\ <<lo, hi>> # widgets.pos_range
    /\ WithinBound([widgets EXCEPT !.pos_range = <<lo, hi>>])
    /\ Rerun(selected_dataset, page, [widgets EXCEPT !.pos_range = <<lo, hi>>], "other")

\* lines 188-194
SetScoreRange(lo, hi) ==
    /\ rendered.score_range # NotRendered
    /\ rendered.score_range[1] <= lo /\ lo <= hi /\ hi <= rendered.score_range[2]
    /\ <<lo, hi>> # widgets.score_range
    /\ WithinBound([widgets EXCEPT !.score_range = <<lo, hi>>])
    /\ Rerun(selected_dataset, page, [widgets EXCEPT !.score_range = <<lo, hi>>], "other")

\* lines 202-205
SetClinFilter(v) ==
    /\ rendered.clin_filter
    /\ v # widgets.clin_filter
    /\ WithinBound([widgets EXCEPT !.clin_filter = v])
    /\ Rerun(selected_dataset, page, [widgets EXCEPT !.clin_filter = v], "other")

\* line 214
SetTranscriptionFactor(tf) ==
    /\ tf # widgets.selected_tf
    /\ WithinBound([widgets EXCEPT !.selected_tf = tf])
    /\ Rerun(selected_dataset, page, [widgets EXCEPT !.selected_tf = tf], "other")

\* lines 221, 223, 225
ToggleCheckbox(label) ==
    /\ rendered[label]
    /\ WithinBound([widgets EXCEPT ![label] = ~widgets[label]])
    /\ Rerun(selected_dataset, page, [widgets EXCEPT ![label] = ~widgets[label]], "other")

\* line 230
SetSearchTerm(term) ==
    /\ rendered.search_term
    /\ term # widgets.search_term
    /\ WithinBound([widgets EXCEPT !.search_term = term])
    /\ Rerun(selected_dataset, page, [widgets EXCEPT !.search_term = term], "other")

\* lines 236-238: the click starts a run in which st.button returns True,
\* st.rerun() ends that run and starts another one; neither run changes
\* what the controls hold
ResetFilters ==
    /\ page = "Browse Data"
    /\ raised = "none"
    /\ Rerun(selected_dataset, page, widgets, "reset")

\* lines 244-252: a click on the download button starts a run
Download ==
    /\ page = "Browse Data"
    /\ raised = "none"
    /\ Rerun(selected_dataset, page, widgets, "other")

Next ==
    \/ \E name \in Names : SelectDataset(name)
    \/ \E pg \in Pages : Navigate(pg)
    \/ \E c \in rendered.selected_chromosome : SetChromosome(c)
    \/ \E lo \in 1..MaxPos, hi \in 1..MaxPos : SetPosRange(lo, hi)
    \/ \E lo \in 1..MaxScore, hi \in 1..MaxScore : SetScoreRange(lo, hi)
    \/ \E v \in ClinOptions : SetClinFilter(v)
    \/ \E tf \in rendered.selected_tf : SetTranscriptionFactor(tf)
    \/ \E label \in LinkLabels : ToggleCheckbox(label)
    \/ \E term \in SearchTerms : SetSearchTerm(term)
    \/ ResetFilters
    \/ Download

Spec == Init /\ [][Next]_vars

(***************************************************************************)
(* Properties.                                                             *)
(***************************************************************************)
current_rows == datasets[selected_dataset].rows

current_columns == datasets[selected_dataset].columns

BrowseShown == page = "Browse Data" /\ raised = "none"

InFiltered(r) == \E i \in 1..Len(filtered_data) : filtered_data[i] = r

\* C1: on Browse Data, whatever the dataset and the filter settings, the
\* table shown is a subsequence of the dataset's rows: every row shown is
\* the dataset's row of the same label, and the labels increase strictly, so
\* no row is made up, none is repeated and the original order is kept.
C1_FilteredIsSubsequence ==
    BrowseShown =>
        /\ \A i \in 1..Len(filtered_data) :
              LET k == filtered_data[i].index + 1
              IN  k \in 1..Len(current_rows) /\ current_rows[k] = filtered_data[i]
        /\ \A i, j \in 1..Len(filtered_data) :
              i < j => filtered_data[i].index < filtered_data[j].index

\* C1 happens: a filter is set and the table still shows two rows
C1_Witness ==
    /\ BrowseShown
    /\ Active(widgets, rendered) # {}
    /\ Len(filtered_data) >= 2

\* C2: with every filter control at its default the table shown is the
\* whole dataset, rows with a missing position or score included.
C2_DefaultsShowEveryRow ==
    (BrowseShown /\ Active(widgets, rendered) = {}) => filtered_data = current_rows

\* C3: on Browse Data no filter raises for want of a column, whatever the
\* schema of the dataset.
C3_AbsentColumnsNeverRaise ==
    page = "Browse Data" => raised # "KeyError"

\* C4: after a press on Reset Filters every filter control holds its
\* default and the table shown is the one of the default settings.
C4_ResetRestoresDefaults ==
    last_event = "reset" =>
        /\ Active(widgets, rendered) = {}
        /\ filtered_data =
              BrowseData(datasets[selected_dataset], DefaultWidgets, NoWidgets).fd

FilterSteps == {FilterOrder[i] : i \in 1..Len(FilterOrder)}

Lookup(level, S) == (CHOOSE p \in level : p[1] = S)[2]

\* for every set S of k filter blocks, the runs that apply the blocks of S
\* in each of their orders: the last block applied is any s of S, after the
\* blocks of S \ {s} in each of their orders
RECURSIVE OrdersOfSize(_, _, _, _)
OrdersOfSize(k, current_data, held, prev) ==
    IF k = 0 THEN {<<{}, {StartRun(current_data)}>>}
    ELSE LET before == OrdersOfSize(k - 1, current_data, held, prev)
         IN  {<<S, UNION {{FilterStep(s, current_data, held, prev, st) :
                              st \in Lookup(before, S \ {s})} : s \in S}>> :
                 S \in {T \in SUBSET FilterSteps : Cardinality(T) = k}}

\* the outcomes of the filter blocks over all their permutations
AnyOrder(current_data, held, prev) ==
    Lookup(OrdersOfSize(Cardinality(FilterSteps), current_data, held, prev), FilterSteps)

\* C5: whatever the dataset and the filter settings, every permutation of
\* the seven filter blocks ends with the rows the script's own order shows.
C5_OrderIsIrrelevant ==
    BrowseShown =>
        \A st \in AnyOrder(datasets[selected_dataset], widgets, rendered) :
            st.err = "none" /\ st.fd = filtered_data

\* C5 happens: two filters are set and together they remove some rows but
\* not all
C5_Witness ==
    /\ BrowseShown
    /\ Cardinality(Active(widgets, rendered)) >= 2
    /\ 0 < Len(filtered_data) /\ Len(filtered_data) < Len(current_rows)

Contained(r, range) ==
    /\ r.cells["variant_start"] # NaN /\ range[1] <= r.cells["variant_start"]
    /\ r.cells["variant_end"] # NaN /\ r.cells["variant_end"] <= range[2]

Overlaps(r, range) ==
    /\ r.cells["variant_start"] # NaN /\ r.cells["variant_start"] <= range[2]
    /\ r.cells["variant_end"] # NaN /\ range[1] <= r.cells["variant_end"]

\* C6: the position filter is a containment test with inclusive bounds: a
\* row shown has lower <= variant_start and variant_end <= upper, and when
\* no other control is set every row with a score that has both is shown.
C6_PositionIsContainment ==
    (BrowseShown /\ "variant_start" \in current_columns) =>
        \A k \in 1..Len(current_rows) :
            LET r == current_rows[k]
            IN  /\ InFiltered(r) => Contained(r, widgets.pos_range)
                /\ ( /\ Active(widgets, rendered) \subseteq {"pos_range"}
                     /\ Contained(r, widgets.pos_range)
                     /\ "ScoreChange" \in current_columns => r.cells["ScoreChange"] # NaN )
                   => InFiltered(r)

\* C6 happens: the slider is moved, a row inside the range is shown and a
\* row that only overlaps the range is not
C6_Witness ==
    /\ BrowseShown
    /\ "pos_range" \in Active(widgets, rendered)
    /\ \E k \in 1..Len(current_rows) :
          Contained(current_rows[k], widgets.pos_range) /\ InFiltered(current_rows[k])
    /\ \E k \in 1..Len(current_rows) :
          /\ Overlaps(current_rows[k], widgets.pos_range)
          /\ ~Contained(current_rows[k], widgets.pos_range)
          /\ ~InFiltered(current_rows[k])

NotApplicable(cell) == cell.kind = "text" /\ cell.text \in {"N/A", "not applicable"}

\* C7: a dataset with a ScoreChange column and no row with a score gets
\* "not applicable" for the average and the range of the score on the
\* Analysis page, and Browse Data computes its slider bounds over it
\* without raising.
C7_EmptyStatisticsNotApplicable ==
    /\ page = "Analysis" =>
          \A i \in 1..Len(DatasetNames) :
              LET df == datasets[DatasetNames[i]]
              IN  ("ScoreChange" \in df.columns /\ CountOf(df.rows, "ScoreChange") = 0)
                  => /\ NotApplicable(summary_df[i]["AvgScoreChange"])
                     /\ NotApplicable(summary_df[i]["ScoreRange"])
    /\ (page = "Browse Data" /\ current_rows = <<>>) => raised = "none"

StatisticColumn ==
    [Chromosomes |-> "chr", AvgScoreChange |-> "ScoreChange", ScoreRange |-> "ScoreChange",
     ClinicalSig |-> "is_clinically_significant"]

\* C8: the comparison table has one row per loaded dataset, in dataset
\* order, and every statistic whose column a dataset lacks is "N/A" in
\* that dataset's row.
C8_ComparisonPlaceholders ==
    page = "Analysis" =>
        /\ raised = "none"
        /\ Len(summary_df) = Len(DatasetNames)
        /\ \A i \in 1..Len(DatasetNames) :
              /\ summary_df[i]["Dataset"] = Text(DatasetNames[i])
              /\ \A stat \in DOMAIN StatisticColumn :
                    StatisticColumn[stat] \notin datasets[DatasetNames[i]].columns
                    => /\ stat \in DOMAIN summary_df[i]
                       /\ summary_df[i][stat] = Text("N/A")

\* the search string as plain text, found in the value ignoring case
ContainsIgnoringCase(term, str) ==
    /\ str # NaStr
    /\ \E off \in 0..(Len(str) - Len(term)) :
          \A i \in 1..Len(term) : Lower(term[i]) = Lower(str[off + i])

\* C9: the dbSNP search never raises, and with a search string typed in
\* the rows shown are rows whose dbsnp_id contains it ignoring case.
C9_SearchIsPlainContainment ==
    page = "Browse Data" =>
        /\ raised \notin {"re.error", "AttributeError"}
        /\ (raised = "none" /\ widgets.search_term # <<>>) =>
              \A i \in 1..Len(filtered_data) :
                  ContainsIgnoringCase(widgets.search_term, filtered_data[i].cells["dbsnp_id"])

\* C10: no interaction changes a dataset of the session store.
C10_DatasetsNeverChange == [][datasets' = datasets]_vars

\* C10 happens: a run has filtered rows out of the selected dataset by a
\* control the user has set
C10_Witness ==
    /\ BrowseShown
    /\ Active(widgets, rendered) # {}
    /\ Len(filtered_data) < Len(current_rows)

====
